---- MODULE Spec2Model ----
(***************************************************************************)
(* Floorplan-hotspot overlay of the 360 photo viewer.                      *)
(*                                                                         *)
(* A page includes one of the two index.js files.  Each file is a          *)
(* sequence of top-level parts that share one document:                    *)
(*   - "clean"  : walkarounds/2025.07.29/index.js lines 10-171             *)
(*   - "legacy" : walkarounds/2025.07.29/index.js lines 175-306 and        *)
(*                walkarounds/2025.08.05/index.js lines 3-132              *)
(*   - "onload" : the window load listener that ends both files            *)
(* JavaScript runs every callback to completion, so each callback (event   *)
(* dispatch, timer, animation frame, promise chain) is one action.         *)
(* Time is kept as the delay left on every pending timer; a due timer runs *)
(* before any event that arrives at the same instant.                      *)
(***************************************************************************)
EXTENDS Integers, Sequences, FiniteSets

VARIABLES
    script,         \* which index.js the page includes: "v0729" or "v0805"
    lib,            \* typeof Marzipano !== 'undefined'
    floorEl,        \* document.getElementById('floorplan') !== null
    phase,          \* "parsed" -> "ran" (script executed) -> "loaded" (window load)
    cleanOn,        \* listeners of the clean part are registered
    legacyOn,       \* listeners of the legacy part are registered
    onloadOn,       \* the window load listener is registered
    globalScene,    \* window.loadScene is defined
    display,        \* mapPanel.style.display
    img,            \* floorplan image: "loading", "loaded" or "broken"
    viewport,       \* index of the current layout in Layouts
    loadLs,         \* listeners registered for the floorplan's load event
    errorL,         \* the clean part's once-listener for the floorplan's error event
    raf,            \* pending requestAnimationFrame callbacks of the legacy toggle
    inflight,       \* fetches in flight started by loadHotspots, per part
    onloadFetch,    \* the fetch in flight started by drawDotsWhenReady, with its rect
    hotspotsData,   \* the clean part's cached dataset
    dots,           \* the .dot elements of the document, in document order
    views,          \* every view created by loadScene
    currentView,    \* each part's currentView (0 is null)
    pollTimer,      \* the pending timer of drawDotsWhenReady
    resizeTimers,   \* the pending timers set by the resize listener
    resizeTimer,    \* the clean part's resizeTimer (0 is null)
    sinceResize,    \* time since the resize listener last set its timer
    sincePoll,      \* time since drawDotsWhenReady last ran
    polls,          \* what drawDotsWhenReady has done so far
    burst,          \* the resize events and re-renders of the current burst
    run,            \* the current succession of drawDotsSafely invocations
    shown,          \* the markers and cache as they were when the load in flight was triggered
    last            \* what the last callback did

vars == << script, lib, floorEl, phase, cleanOn, legacyOn, onloadOn, globalScene,
           display, img, viewport, loadLs, errorL, raf, inflight, onloadFetch,
           hotspotsData, dots, views, currentView, pollTimer, resizeTimers,
           resizeTimer, sinceResize, sincePoll, polls, burst, run, shown, last >>

----------------------------------------------------------------------------
(* Bounds of the exploration *)

MaxPending == 2
MaxDots == 4
MaxScenes == 2
TickStep == 50

(* Program constants *)

Retries == 10
PollDelay == 100
ResizeDelay == 100
InitialFov == 1200
ZoomFactor == 4
MinFov == 400
MaxFov == 1500

----------------------------------------------------------------------------
(* Input data *)

Layouts == << <<200, 100>>, <<400, 300>> >>
NaturalSize == <<800, 400>>

PhotoA == << "a" >>
PhotoB == << "p", "h", "o", "t", "o", "s", "/", "b" >>

\* a coordinate is a fraction <<numerator, denominator>> in [0,1]
Half == <<1, 2>>
One == <<1, 1>>
Zero == <<0, 1>>

HotspotA == [x |-> Half, y |-> Half, photo |-> PhotoA]
HotspotB == [x |-> One, y |-> Zero, photo |-> PhotoB]

Datasets == { << HotspotA, HotspotB >> }

\* the outcome of a fetch: a network error, or a response with a status and a body
Responses ==
    { [net |-> TRUE, ok |-> FALSE, body |-> "bad", data |-> << >>] }
    \cup { [net |-> FALSE, ok |-> o, body |-> b, data |-> << >>] :
              o \in BOOLEAN, b \in {"bad", "obj"} }
    \cup { [net |-> FALSE, ok |-> o, body |-> "arr", data |-> d] :
              o \in BOOLEAN, d \in Datasets }

----------------------------------------------------------------------------
(* The program state as one record, so that a callback is a function of it *)

Cur ==
    [ script |-> script, lib |-> lib, floorEl |-> floorEl, phase |-> phase,
      cleanOn |-> cleanOn, legacyOn |-> legacyOn, onloadOn |-> onloadOn,
      globalScene |-> globalScene, display |-> display, img |-> img,
      viewport |-> viewport, loadLs |-> loadLs, errorL |-> errorL, raf |-> raf,
      inflight |-> inflight, onloadFetch |-> onloadFetch,
      hotspotsData |-> hotspotsData, dots |-> dots, views |-> views,
      currentView |-> currentView, pollTimer |-> pollTimer,
      resizeTimers |-> resizeTimers, resizeTimer |-> resizeTimer,
      sinceResize |-> sinceResize, sincePoll |-> sincePoll, polls |-> polls,
      burst |-> burst, run |-> run, last |-> last ]

Set(s) ==
    /\ script' = s.script /\ lib' = s.lib /\ floorEl' = s.floorEl
    /\ phase' = s.phase /\ cleanOn' = s.cleanOn /\ legacyOn' = s.legacyOn
    /\ onloadOn' = s.onloadOn /\ globalScene' = s.globalScene
    /\ display' = s.display /\ img' = s.img /\ viewport' = s.viewport
    /\ loadLs' = s.loadLs /\ errorL' = s.errorL /\ raf' = s.raf
    /\ inflight' = s.inflight /\ onloadFetch' = s.onloadFetch
    /\ hotspotsData' = s.hotspotsData /\ dots' = s.dots /\ views' = s.views
    /\ currentView' = s.currentView /\ pollTimer' = s.pollTimer
    /\ resizeTimers' = s.resizeTimers /\ resizeTimer' = s.resizeTimer
    /\ sinceResize' = s.sinceResize /\ sincePoll' = s.sincePoll
    /\ polls' = s.polls /\ burst' = s.burst /\ run' = s.run /\ last' = s.last

\* the record of a callback that has done nothing yet
Blank == [alerts |-> 0, errors |-> 0, warns |-> 0, prevented |-> FALSE]

\* the state a callback starts from
Begin == [Cur EXCEPT !.last = Blank]

InFlightCount(s) == s.inflight.clean + s.inflight.legacy + Len(s.onloadFetch)

Within(s) ==
    /\ InFlightCount(s) + s.raf <= MaxPending
    /\ Len(s.dots) <= MaxDots
    /\ Len(s.views) <= MaxScenes

----------------------------------------------------------------------------
(* The document *)

\* floorplan.complete
Complete(s) == s.img # "loading"

\* floorplan.naturalWidth, floorplan.naturalHeight
Natural(s) == IF s.img = "loaded" THEN NaturalSize ELSE <<0, 0>>

\* floorplan.getBoundingClientRect(): an image that is not displayed, or has
\* no pixels yet, has an empty box
Rect(s) ==
    IF s.display = "block" /\ s.img = "loaded" THEN Layouts[s.viewport] ELSE <<0, 0>>

alert(s) == [s EXCEPT !.last.alerts = @ + 1]

\* an exception nobody catches, or a promise rejection nobody handles
Uncaught(s) == [s EXCEPT !.last.errors = @ + 1]

\* document.querySelectorAll('.dot').forEach(dot => dot.remove())
RemoveDots(s) == [s EXCEPT !.dots = << >>]

\* x * width as a fraction
Times(frac, n) == << frac[1] * n, frac[2] >>

\* one .dot element; x, y, box, nat and loaded record its hotspot and the
\* floorplan as it is when the element is created
Dot(s, hp, w, h, by) ==
    [ left |-> Times(hp.x, w), top |-> Times(hp.y, h), photo |-> hp.photo,
      by |-> by, x |-> hp.x, y |-> hp.y,
      box |-> Rect(s), nat |-> Natural(s), loaded |-> s.img = "loaded" ]

AppendDots(s, hotspots, w, h, by) ==
    [s EXCEPT !.dots = @ \o [i \in 1..Len(hotspots) |-> Dot(s, hotspots[i], w, h, by)]]

----------------------------------------------------------------------------
(* Bookkeeping of successive drawDotsSafely invocations.  A run is one or   *)
(* two successive invocations of the same drawDotsSafely, the first made    *)
(* with no fetch in flight; it ends (NoRun) as soon as anything else issues *)
(* a fetch, a fetch fails, or two datasets it sees differ.                  *)

NoRun == [fn |-> "", calls |-> 0, known |-> FALSE, data |-> << >>]

RunData(s, d) ==
    IF s.run.fn = "" THEN s
    ELSE IF ~s.run.known THEN [s EXCEPT !.run.known = TRUE, !.run.data = d]
    ELSE IF s.run.data # d THEN [s EXCEPT !.run = NoRun]
    ELSE s

RunCall(s, fn) ==
    IF s.run.fn = fn /\ s.run.calls = 1 THEN [s EXCEPT !.run.calls = 2]
    ELSE IF InFlightCount(s) = 0
    THEN [s EXCEPT !.run = [fn |-> fn, calls |-> 1, known |-> FALSE, data |-> << >>]]
    ELSE [s EXCEPT !.run = NoRun]

RunTaint(s) == [s EXCEPT !.run = NoRun]

\* a fetch started by part `by` has completed with response r
RunResp(s, by, r) ==
    IF s.run.fn # by \/ r.net \/ ~r.ok \/ r.body # "arr" THEN RunTaint(s)
    ELSE RunData(s, r.data)

----------------------------------------------------------------------------
(* Viewer adapter *)

StartsWith(p, pre) == Len(p) >= Len(pre) /\ SubSeq(p, 1, Len(pre)) = pre

Http == << "h", "t", "t", "p", ":", "/", "/" >>
Https == << "h", "t", "t", "p", "s", ":", "/", "/" >>
PhotosDir == << "p", "h", "o", "t", "o", "s", "/" >>

\* the path normalization of the second loadScene of 2025.07.29
Normalize(imagePath) ==
    IF ~(StartsWith(imagePath, Http) \/ StartsWith(imagePath, Https))
       /\ ~StartsWith(imagePath, PhotosDir)
    THEN PhotosDir \o imagePath
    ELSE imagePath

\* loadScene of part `by`: a new view replaces that part's currentView
loadScene(s, by, imagePath) ==
    LET src == IF by = "legacy" /\ s.script = "v0729" THEN Normalize(imagePath)
               ELSE imagePath
    IN  [s EXCEPT !.views = Append(@, [arg |-> imagePath, src |-> src,
                                           fov |-> InitialFov, by |-> by]),
                  !.currentView[by] = Len(s.views) + 1]

\* the click listener of a .dot element created by part `by`
DotClick(s, d) ==
    CASE d.by = "clean" -> IF d.photo # << >> THEN loadScene(s, "clean", d.photo) ELSE s
      [] d.by = "legacy" -> loadScene(s, "legacy", d.photo)
      [] OTHER -> IF s.globalScene THEN loadScene(s, "legacy", d.photo)
                  ELSE Uncaught(s)

----------------------------------------------------------------------------
(* Clean part: 2025.07.29 lines 10-171 *)

\* hp.x || 0
Or0(frac) == IF frac[1] = 0 THEN Zero ELSE frac

renderDots(s, hotspots) ==
    IF ~s.floorEl THEN s
    ELSE LET rect == Rect(s)
             width == IF rect[1] # 0 THEN rect[1] ELSE Natural(s)[1]
             height == IF rect[2] # 0 THEN rect[2] ELSE Natural(s)[2]
             hs == [i \in 1..Len(hotspots) |->
                      [hotspots[i] EXCEPT !.x = Or0(@), !.y = Or0(@)]]
         IN  AppendDots(s, hs, width, height, "clean")

drawDotsSafelyC(s) ==
    LET s1 == RunData(RunCall(s, "clean"), s.hotspotsData)
    IN  renderDots(RemoveDots(s1), s1.hotspotsData)

loadHotspotsC(s) ==
    RunTaint([s EXCEPT !.inflight.clean = @ + 1])

\* the promise chain of loadHotspots once the fetch has completed with r
loadHotspotsDoneC(s, r) ==
    IF r.net \/ ~r.ok \/ r.body = "bad" THEN alert(s)
    ELSE drawDotsSafelyC(
             [s EXCEPT !.hotspotsData = IF r.body = "arr" THEN r.data ELSE << >>])

toggleC(s) ==
    LET isVisible == s.display = "block"
        s1 == [s EXCEPT !.display = IF isVisible THEN "none" ELSE "block"]
    IN  IF ~isVisible
        THEN IF Len(s1.hotspotsData) # 0 THEN drawDotsSafelyC(s1) ELSE loadHotspotsC(s1)
        ELSE s1

ensureDots(s) ==
    IF Len(s.hotspotsData) = 0 THEN loadHotspotsC(s) ELSE drawDotsSafelyC(s)

\* setTimeout returns an id no pending timer has
NewTimerId(s) ==
    CHOOSE i \in 1..(Cardinality(s.resizeTimers) + 1) :
        \A t \in s.resizeTimers : t.id # i

\* clearTimeout if it left the pending timer in place
clearTimeout_Kept(s, id) == s

clearTimeout(s, id) ==
    [s EXCEPT !.resizeTimers = { t \in @ : t.id # id }]

\* the burst of resize events that the listener has acted on
BurstEvent(s) ==
    IF s.burst.n = 0 \/ s.sinceResize >= ResizeDelay
    THEN [s EXCEPT !.burst = [n |-> 1, renders |-> 0, at |-> 0], !.sinceResize = 0]
    ELSE [s EXCEPT !.burst.n = IF @ < 3 THEN @ + 1 ELSE @, !.sinceResize = 0]

resizeListener(s) ==
    IF Len(s.hotspotsData) = 0 THEN s
    ELSE LET s1 == clearTimeout(s, s.resizeTimer)
             id == NewTimerId(s1)
         IN  BurstEvent([s1 EXCEPT !.resizeTimers = @ \cup {[id |-> id, left |-> ResizeDelay]},
                                   !.resizeTimer = id])

\* the timer callback of the resize listener
resizeTimeout(s, t) ==
    LET s1 == [s EXCEPT !.resizeTimers = @ \ {t},
                        !.burst.renders = IF @ < 2 THEN @ + 1 ELSE @,
                        !.burst.at = IF s.burst.renders = 0 THEN s.sinceResize ELSE @]
    IN  drawDotsSafelyC(s1)

\* the body of the first function of 2025.07.29
iifeClean(s) ==
    IF ~s.lib THEN alert(s)
    ELSE LET s1 == [s EXCEPT !.cleanOn = TRUE, !.display = "block"]
         IN  IF ~s1.floorEl THEN Uncaught(s1)
             ELSE IF Complete(s1) /\ Natural(s1)[1] # 0 THEN ensureDots(s1)
             ELSE [s1 EXCEPT !.loadLs = @ \cup {"ensureDots"}, !.errorL = TRUE]

----------------------------------------------------------------------------
(* Legacy part: 2025.08.05 lines 3-132, 2025.07.29 lines 175-306 *)

loadHotspotsL(s) ==
    [s EXCEPT !.inflight.legacy = @ + 1]

drawDotsSafelyL(s) == loadHotspotsL(RemoveDots(RunCall(s, "legacy")))

initDots(s, hotspots) ==
    LET rect == Rect(s)
        width == IF rect[1] # 0 THEN rect[1] ELSE Natural(s)[1]
        height == IF rect[2] # 0 THEN rect[2] ELSE Natural(s)[2]
    IN  AppendDots(s, hotspots, width, height, "legacy")

\* the promise chain of loadHotspots once the fetch has completed with r; an
\* exception of initDots (no floorplan, hotspots.forEach of a non-array) is
\* caught like a failed fetch
loadHotspotsDoneL(s, r) ==
    IF r.net \/ ~r.ok \/ r.body = "bad" THEN alert(s)
    ELSE IF ~s.floorEl \/ r.body # "arr" THEN alert(s)
    ELSE initDots(s, r.data)

\* the callback the toggle listener hands to requestAnimationFrame
rafCallback(s) ==
    IF ~s.floorEl THEN alert(s)
    ELSE IF Complete(s) THEN drawDotsSafelyL(s)
    ELSE [s EXCEPT !.loadLs = @ \cup {"drawDotsSafely"}]

toggleL(s) ==
    LET isVisible == s.display = "block"
        s1 == [s EXCEPT !.display = IF isVisible THEN "none" ELSE "block"]
    IN  IF ~isVisible THEN [s1 EXCEPT !.raf = @ + 1] ELSE s1

iifeLegacy(s) ==
    IF ~s.lib THEN alert(s)
    ELSE [s EXCEPT !.legacyOn = TRUE, !.globalScene = (s.script = "v0729")]

----------------------------------------------------------------------------
(* Window load listener: 2025.08.05 lines 135-175, 2025.07.29 lines 309-347 *)

\* drawDotsWhenReady if it retried while retries >= 0
drawDotsWhenReady_OneMore(s, retries) ==
    IF ~s.floorEl THEN Uncaught(s)
    ELSE LET rect == Rect(s)
             fullyRendered == Complete(s) /\ rect[1] > 0 /\ rect[2] > 0
             s1 == [s EXCEPT !.polls.checks = @ + 1, !.sincePoll = 0]
         IN  IF fullyRendered
             THEN RunTaint([RemoveDots(s1) EXCEPT !.onloadFetch = << rect >>,
                                                 !.polls.fetches = @ + 1])
             ELSE IF retries >= 0
             THEN [s1 EXCEPT !.pollTimer = << [left |-> PollDelay, retries |-> retries - 1] >>,
                             !.polls.timers = @ + 1]
             ELSE [s1 EXCEPT !.polls.warns = @ + 1, !.last.warns = @ + 1]

\* drawDotsWhenReady if the retry lacked its else and followed the fetch too
drawDotsWhenReady_NoElse(s, retries) ==
    IF ~s.floorEl THEN Uncaught(s)
    ELSE LET rect == Rect(s)
             fullyRendered == Complete(s) /\ rect[1] > 0 /\ rect[2] > 0
             s1 == [s EXCEPT !.polls.checks = @ + 1, !.sincePoll = 0]
             s2 == IF fullyRendered
                   THEN RunTaint([RemoveDots(s1) EXCEPT !.onloadFetch = << rect >>,
                                                       !.polls.fetches = @ + 1])
                   ELSE s1
         IN  IF retries > 0
             THEN [s2 EXCEPT !.pollTimer = << [left |-> PollDelay, retries |-> retries - 1] >>,
                             !.polls.timers = @ + 1]
             ELSE IF fullyRendered THEN s2
             ELSE [s2 EXCEPT !.polls.warns = @ + 1, !.last.warns = @ + 1]

drawDotsWhenReady(s, retries) ==
    IF ~s.floorEl THEN Uncaught(s)
    ELSE LET rect == Rect(s)
             fullyRendered == Complete(s) /\ rect[1] > 0 /\ rect[2] > 0
             s1 == [s EXCEPT !.polls.checks = @ + 1, !.sincePoll = 0]
         IN  IF fullyRendered
             THEN RunTaint([RemoveDots(s1) EXCEPT !.onloadFetch = << rect >>,
                                                 !.polls.fetches = @ + 1])
             ELSE IF retries > 0
             THEN [s1 EXCEPT !.pollTimer = << [left |-> PollDelay, retries |-> retries - 1] >>,
                             !.polls.timers = @ + 1]
             ELSE [s1 EXCEPT !.polls.warns = @ + 1, !.last.warns = @ + 1]

\* the promise chain of drawDotsWhenReady once the fetch has completed with r:
\* nothing checks res.ok and nothing catches
onloadFetchDone(s, r, rect) ==
    IF r.net \/ r.body # "arr" THEN Uncaught(s)
    ELSE AppendDots(s, r.data, rect[1], rect[2], "onload")

windowLoad(s) ==
    drawDotsWhenReady([s EXCEPT !.display = "block"], Retries)

----------------------------------------------------------------------------
(* Manual zoom: the wheel listener of a part, fov in thousandths *)

Max2(a, b) == IF a >= b THEN a ELSE b
Min2(a, b) == IF a <= b THEN a ELSE b

\* the clamp without its lower limit
ClampFov_NoFloor(newFov) == Min2(newFov, MaxFov)

\* Math.max(0.4, Math.min(newFov, 1.5))
ClampFov(newFov) == Max2(MinFov, Min2(newFov, MaxFov))

wheelListener(s, by, deltaY) ==
    IF s.currentView[by] = 0 THEN s
    ELSE LET v == s.currentView[by]
             newFov == s.views[v].fov + deltaY * ZoomFactor
         IN  [s EXCEPT !.views[v].fov = ClampFov(newFov), !.last.prevented = TRUE]

----------------------------------------------------------------------------
(* Timers *)

Lefts(s) ==
    { t.left : t \in s.resizeTimers } \cup { s.pollTimer[i].left : i \in 1..Len(s.pollTimer) }

\* a timer whose delay has passed runs before anything else
Due(s) == 0 \in Lefts(s)

MinOf(S) == CHOOSE m \in S : \A x \in S : m <= x

\* time passes: by TickStep, or up to the next timer that becomes due
Elapse(s) == MinOf(Lefts(s) \cup {TickStep})

----------------------------------------------------------------------------
(* Initial state: the document is parsed and the script has not run yet;   *)
(* the floorplan image may have arrived already                            *)

InitWith(images) ==
    /\ (script = "v0805" \/ script = "v0729")
    /\ (lib = TRUE \/ lib = FALSE)
    /\ (floorEl = TRUE \/ floorEl = FALSE)
    /\ phase = "parsed"
    /\ cleanOn = FALSE /\ legacyOn = FALSE /\ onloadOn = FALSE
    /\ globalScene = FALSE
    /\ display = ""
    /\ img \in images
    /\ viewport = 1
    /\ loadLs = {} /\ errorL = FALSE
    /\ raf = 0
    /\ inflight = [clean |-> 0, legacy |-> 0]
    /\ onloadFetch = << >>
    /\ hotspotsData = << >>
    /\ dots = << >>
    /\ views = << >>
    /\ currentView = [clean |-> 0, legacy |-> 0]
    /\ pollTimer = << >>
    /\ resizeTimers = {} /\ resizeTimer = 0
    /\ sinceResize = ResizeDelay /\ sincePoll = 0
    /\ polls = [checks |-> 0, warns |-> 0, fetches |-> 0, timers |-> 0, even |-> TRUE]
    /\ burst = [n |-> 0, renders |-> 0, at |-> 0]
    /\ run = NoRun
    /\ shown = << >>
    /\ last = Blank

Init == InitWith({"loading"})

----------------------------------------------------------------------------
(* Actions: one per callback *)

\* what was displayed and cached just before the one load in flight was
\* triggered; nothing is kept while no load or several loads are in flight,
\* or once something else has redrawn the markers
Track(s) ==
    LET before == InFlightCount(Cur)
        after == InFlightCount(s)
    IN  IF after > before
        THEN IF before = 0 /\ after = 1
             THEN << [dots |-> dots, data |-> hotspotsData] >>
             ELSE << >>
        ELSE IF after = 0 \/ after < before THEN << >>
        ELSE IF s.dots # dots \/ s.hotspotsData # hotspotsData THEN << >>
        ELSE shown

Do(s) == Within(s) /\ Set(s) /\ shown' = Track(s)

\* the script file runs: its parts in order; an exception ends the file
RunScript ==
    /\ phase = "parsed"
    /\ LET s0 == [Begin EXCEPT !.phase = "ran"]
           s1 == IF s0.script = "v0729" THEN iifeClean(s0) ELSE s0
           thrown == s1.last.errors > 0
           s2 == IF thrown THEN s1 ELSE iifeLegacy(s1)
           s3 == IF thrown THEN s2 ELSE [s2 EXCEPT !.onloadOn = TRUE]
       IN  Do(s3)

\* the floorplan image finishes loading: its load listeners run in the order
\* they were added; ensureDots was added with once
ImageLoad ==
    /\ floorEl /\ img = "loading" /\ ~Due(Cur)
    /\ LET s0 == [Begin EXCEPT !.img = "loaded"]
           s1 == IF "ensureDots" \in s0.loadLs
                 THEN ensureDots([s0 EXCEPT !.loadLs = @ \ {"ensureDots"}])
                 ELSE s0
           s2 == IF "drawDotsSafely" \in s1.loadLs THEN drawDotsSafelyL(s1) ELSE s1
       IN  Do(s2)

\* the floorplan image fails to load
ImageError ==
    /\ floorEl /\ img = "loading" /\ ~Due(Cur)
    /\ LET s0 == [Begin EXCEPT !.img = "broken"]
           s1 == IF s0.errorL THEN alert([s0 EXCEPT !.errorL = FALSE]) ELSE s0
       IN  Do(s1)

WindowLoad ==
    /\ phase = "ran" /\ ~Due(Cur)
    /\ LET s0 == [Begin EXCEPT !.phase = "loaded"]
       IN  Do(IF s0.onloadOn THEN windowLoad(s0) ELSE s0)

\* a click on the toggle control: its listeners run in the order they were added
Toggle ==
    /\ (cleanOn \/ legacyOn) /\ ~Due(Cur)
    /\ LET s0 == Begin
           s1 == IF s0.cleanOn THEN toggleC(s0) ELSE s0
           s2 == IF s1.legacyOn THEN toggleL(s1) ELSE s1
       IN  Do(s2)

RECURSIVE Repeat(_, _)
Repeat(s, n) == IF n = 0 THEN s ELSE Repeat(rafCallback(s), n - 1)

\* an animation frame: every pending callback runs
Frame ==
    /\ raf > 0 /\ ~Due(Cur)
    /\ Do(Repeat([Begin EXCEPT !.raf = 0], raf))

\* a fetch of hotspots.json completes
FetchDoneOf(by, r) ==
    /\ ~Due(Cur)
    /\ LET s0 == Begin
       IN  CASE by = "clean" ->
                    /\ inflight.clean > 0
                    /\ Do(loadHotspotsDoneC(
                              RunResp([s0 EXCEPT !.inflight.clean = @ - 1], by, r), r))
               [] by = "legacy" ->
                    /\ inflight.legacy > 0
                    /\ Do(loadHotspotsDoneL(
                              RunResp([s0 EXCEPT !.inflight.legacy = @ - 1], by, r), r))
               [] OTHER ->
                    /\ onloadFetch # << >>
                    /\ Do(onloadFetchDone(
                              RunResp([s0 EXCEPT !.onloadFetch = << >>], by, r), r,
                              onloadFetch[1]))

Parts == {"clean", "legacy", "onload"}

FetchDone == \E by \in Parts, r \in Responses : FetchDoneOf(by, r)

\* the window is resized
Resize ==
    /\ ~Due(Cur)
    /\ \E v \in DOMAIN Layouts :
         LET s0 == [Begin EXCEPT !.viewport = v]
         IN  Do(IF s0.cleanOn THEN resizeListener(s0) ELSE s0)

ResizeTimeout ==
    \E t \in resizeTimers :
        /\ t.left = 0
        /\ Do(resizeTimeout(Begin, t))

PollTimeout ==
    /\ pollTimer # << >> /\ pollTimer[1].left = 0
    /\ LET s0 == [Begin EXCEPT
                     !.pollTimer = << >>,
                     !.polls.even = @ /\ sincePoll = PollDelay]
       IN  Do(drawDotsWhenReady(s0, pollTimer[1].retries))

\* a click on a marker, which the user can reach while the panel is displayed
ClickDotAt(i) ==
    /\ display = "block" /\ ~Due(Cur)
    /\ i \in DOMAIN dots
    /\ Do(DotClick(Begin, dots[i]))

ClickDot == \E i \in 1..MaxDots : ClickDotAt(i)

Deltas == {-275, 275}

\* a wheel event over the panorama: the listeners of both parts run
WheelOf(deltaY) ==
    /\ (cleanOn \/ legacyOn) /\ ~Due(Cur)
    /\ LET s0 == Begin
           s1 == IF s0.cleanOn THEN wheelListener(s0, "clean", deltaY) ELSE s0
           s2 == IF s1.legacyOn THEN wheelListener(s1, "legacy", deltaY) ELSE s1
       IN  Do(s2)

Wheel == \E deltaY \in Deltas : WheelOf(deltaY)

Tick ==
    /\ ~Due(Cur)
    /\ Lefts(Cur) # {} \/ sinceResize < ResizeDelay
    /\ LET d == Elapse(Cur)
       IN  Do([Cur EXCEPT
                 !.resizeTimers = { [t EXCEPT !.left = @ - d] : t \in @ },
                 !.pollTimer = [i \in 1..Len(@) |-> [@[i] EXCEPT !.left = @ - d]],
                 !.sinceResize = Min2(@ + d, ResizeDelay),
                 !.sincePoll = IF pollTimer # << >> THEN Min2(@ + d, PollDelay) ELSE @])

\* the page without its panorama: everything but marker clicks and zoom
Next ==
    \/ RunScript
    \/ ImageLoad
    \/ ImageError
    \/ WindowLoad
    \/ Toggle
    \/ Frame
    \/ FetchDone
    \/ Resize
    \/ ResizeTimeout
    \/ PollTimeout
    \/ Tick

Spec == Init /\ [][Next]_vars

\* the panorama: the library and the floorplan are there, the image arrived
\* before the script ran, the window keeps its size and every fetch is
\* answered 200 with the two hotspots
OkResponse == [net |-> FALSE, ok |-> TRUE, body |-> "arr", data |-> << HotspotA, HotspotB >>]

FetchOk == \E by \in Parts : FetchDoneOf(by, OkResponse)

InitScene == InitWith({"loaded"}) /\ lib /\ floorEl

NextScene ==
    \/ RunScript
    \/ WindowLoad
    \/ Toggle
    \/ Frame
    \/ FetchOk
    \/ ClickDot
    \/ Wheel

SpecScene == InitScene /\ [][NextScene]_vars

----------------------------------------------------------------------------
(* Claims *)

\* C1: redraw is idempotent: once drawDotsSafely has been invoked twice in
\* succession with the same hotspot dataset and every fetch it started has
\* completed, the document (with its floorplan element) holds one marker per
\* hotspot, as after one invocation.
C1_RedrawIdempotent ==
    (floorEl /\ run.calls = 2 /\ run.known /\ InFlightCount(Cur) = 0)
        => Len(dots) = Len(run.data)

\* C2: resize debouncing: while the listener acts on resize events (hotspot
\* data present), a burst of events less than ResizeDelay apart keeps exactly
\* one timer pending, restarted by the last event, and is re-rendered exactly
\* once, ResizeDelay after its last event.
C2_ResizeDebounce ==
    burst.n >= 1 =>
        /\ Cardinality(resizeTimers) <= 1
        /\ burst.renders <= 1
        /\ burst.renders = 1 => burst.at = ResizeDelay
        /\ sinceResize < ResizeDelay =>
              /\ burst.renders = 0
              /\ resizeTimers = {[id |-> resizeTimer, left |-> ResizeDelay - sinceResize]}
        /\ (sinceResize = ResizeDelay /\ resizeTimers = {}) => burst.renders = 1

C2_Witness == burst.n = 3 /\ burst.renders = 1 /\ burst.at = ResizeDelay

\* C3: zoom clamp: the fov of every view, the current ones included, stays
\* within [MinFov, MaxFov] whatever scenes are loaded and wheel events arrive.
C3_ZoomClamp ==
    \A i \in DOMAIN views : MinFov <= views[i].fov /\ views[i].fov <= MaxFov

C3_Witness ==
    /\ currentView.legacy # 0
    /\ views[currentView.legacy].fov = MinFov
    /\ \E i \in DOMAIN views : views[i].fov = MaxFov

\* C4: whenever a fetch of hotspots.json completes with a non-OK status, on
\* whichever path issued it, a notification is shown, no marker is created and
\* no error is left unhandled.
C4_NonOkNotified ==
    [][ \A by \in Parts, r \in Responses :
          (~r.net /\ ~r.ok /\ FetchDoneOf(by, r)) =>
              /\ last'.alerts >= 1
              /\ last'.errors = 0
              /\ dots' = dots ]_vars

\* C5: a click on any marker, whichever part created it, invokes the scene
\* load with the marker's photo, and a current-view reference then is the new
\* view instead of the one it held.
C5_ClickLoadsScene ==
    [][ \A i \in 1..MaxDots :
          ClickDotAt(i) =>
              /\ Len(views') = Len(views) + 1
              /\ views'[Len(views')].arg = dots[i].photo
              /\ \E p \in {"clean", "legacy"} :
                    /\ currentView'[p] = Len(views')
                    /\ currentView'[p] # currentView[p] ]_vars

\* C6: if no readiness check of drawDotsWhenReady finds the floorplan complete
\* with a non-zero size, the checks come PollDelay apart, and after the first
\* check and Retries retries the poll logs one warning and stops, having
\* issued no fetch and created no marker.
C6_PollGivesUp ==
    (polls.checks > 0 /\ polls.fetches = 0) =>
        /\ polls.even
        /\ onloadFetch = << >>
        /\ \A i \in DOMAIN dots : dots[i].by # "onload"
        /\ pollTimer # << >> =>
              /\ polls.warns = 0
              /\ polls.checks <= Retries
              /\ polls.timers = polls.checks
              /\ pollTimer[1].left = PollDelay - sincePoll
        /\ pollTimer = << >> =>
              /\ polls.warns = 1
              /\ polls.checks = Retries + 1
              /\ polls.timers = Retries

C6_Witness == polls.warns = 1 /\ polls.fetches = 0 /\ polls.checks = Retries + 1

\* C7: readiness gating: every marker was created while the floorplan image
\* had finished loading and had a non-zero rendered size.
C7_ReadinessGating ==
    \A i \in DOMAIN dots :
        dots[i].loaded /\ dots[i].box[1] > 0 /\ dots[i].box[2] > 0

\* C8: each activation of the toggle control flips the panel: from VISIBLE to
\* HIDDEN with no rendering triggered, from HIDDEN to VISIBLE.
C8_ToggleFlips ==
    [][ Toggle =>
          /\ display = "block" =>
                /\ display' = "none"
                /\ raf' = raf /\ inflight' = inflight /\ dots' = dots
          /\ display # "block" => display' = "block" ]_vars

\* C9: if the viewer library is absent, the script shows a notification and
\* nothing else is initialized: the panel is never shown, no readiness check
\* runs, no fetch is issued and no marker is created.
C9_NoLibraryNothingRuns ==
    [][ ~lib =>
          /\ RunScript => last'.alerts >= 1
          /\ display' # "block"
          /\ polls'.checks = 0
          /\ InFlightCount([inflight |-> inflight', onloadFetch |-> onloadFetch']) = 0
          /\ dots' = << >> ]_vars

\* C10: every marker sits at exactly (x*W, y*H), W and H being the floorplan's
\* rendered width and height when the marker is created, or the intrinsic
\* dimensions when the rendered box is empty.
C10_MarkerPosition ==
    \A i \in DOMAIN dots :
        LET d == dots[i]
            W == IF d.box[1] # 0 THEN d.box[1] ELSE d.nat[1]
            H == IF d.box[2] # 0 THEN d.box[2] ELSE d.nat[2]
        IN  d.left = Times(d.x, W) /\ d.top = Times(d.y, H)

\* a hotspot load has succeeded: only a successful load fills the cache of
\* the clean part or leaves markers of initDots or renderDots
LoadSucceeded ==
    \/ Len(hotspotsData) > 0
    \/ \E i \in DOMAIN dots : dots[i].by \in {"clean", "legacy"}

\* C11: once a hotspot load has succeeded, showing the panel issues no new
\* fetch, neither in the toggle listeners nor in the animation frame they
\* request, and a toggle of the hidden panel shows it.
C11_ShowUsesCache ==
    [][ /\ (LoadSucceeded /\ (Toggle \/ Frame)) =>
              InFlightCount([inflight |-> inflight', onloadFetch |-> onloadFetch'])
                  <= InFlightCount(Cur)
        /\ (Toggle /\ display # "block") => display' = "block" ]_vars

\* C12: a failed hotspot load (network error, non-OK status, malformed JSON)
\* preserves the previous state: after the failure the markers and the cached
\* dataset are what they were before the load was triggered, and the only
\* effect is one notification.
C12_FailurePreserves ==
    [][ \A by \in {"clean", "legacy"}, r \in Responses :
          ((r.net \/ ~r.ok \/ r.body = "bad") /\ shown # << >> /\ FetchDoneOf(by, r)) =>
              /\ dots' = shown[1].dots
              /\ hotspotsData' = shown[1].data
              /\ last'.alerts = 1
              /\ last'.errors = 0 ]_vars

\* C13: when a fetch succeeds with a JSON body that is not a sequence, on
\* whichever path issued it, the body counts as an empty sequence: no marker
\* is rendered, no notification is shown and no error is left unhandled.
C13_NonSequenceIsEmpty ==
    [][ \A by \in Parts, r \in Responses :
          (~r.net /\ r.ok /\ r.body = "obj" /\ FetchDoneOf(by, r)) =>
              /\ Len(dots') <= Len(dots)
              /\ last'.alerts = 0
              /\ last'.errors = 0 ]_vars

\* C14: a resize leads to a re-render only if the panel is VISIBLE and hotspot
\* data is present: a resize event that arrives while the panel is hidden or
\* the dataset is empty starts no timer, and the timer's re-render runs only
\* with the panel visible and data present.
C14_ResizeOnlyWhenVisible ==
    [][ /\ (Resize /\ (display # "block" \/ Len(hotspotsData) = 0)) =>
              resizeTimers' = resizeTimers
        /\ ResizeTimeout => (display = "block" /\ Len(hotspotsData) > 0) ]_vars

\* the fetch of part `by` still in flight was in flight together with one
\* that has completed: a marker of initDots outlived the removal made when
\* the pending fetch was issued, or the cache was filled after the pending
\* fetch was issued (loadHotspots of the clean part runs on an empty cache)
Overlapped(by) ==
    IF by = "legacy" THEN \E i \in DOMAIN dots : dots[i].by = "legacy"
    ELSE Len(hotspotsData) > 0

\* the markers ds are exactly those of the dataset data
ShowsExactly(ds, data) ==
    /\ Len(ds) = Len(data)
    /\ \A i \in DOMAIN ds :
          ds[i].photo = data[i].photo /\ ds[i].x = data[i].x /\ ds[i].y = data[i].y

\* C15: fetches in flight at once are last-writer-wins: when the last of two
\* overlapping fetches of a part completes, the markers displayed are exactly
\* those of its response, and so is the cache of the part that keeps one.
C15_LastWriterWins ==
    [][ \A by \in {"clean", "legacy"}, r \in Responses :
          ( /\ floorEl /\ ~r.net /\ r.ok /\ r.body = "arr"
            /\ inflight[by] = 1 /\ Overlapped(by)
            /\ FetchDoneOf(by, r) ) =>
              /\ ShowsExactly(dots', r.data)
              /\ by = "clean" => hotspotsData' = r.data ]_vars

\* C16: exactly one view is live for zoom: a wheel event before any scene is
\* loaded changes nothing and does not prevent the default scroll; after scene
\* loads it prevents the default and changes the fov of no view but the one
\* loaded last.
C16_OneLiveView ==
    [][ \A deltaY \in Deltas :
          WheelOf(deltaY) =>
              IF Len(views) = 0
              THEN views' = views /\ currentView' = currentView /\ ~last'.prevented
              ELSE /\ last'.prevented
                   /\ Len(views') = Len(views)
                   /\ \A i \in 1..(Len(views) - 1) : views'[i] = views[i] ]_vars

\* C17: when the floorplan element is absent, no callback throws, and every
\* callback that uses the element shows a notification: the animation frame of
\* the toggle, the window load listener with its readiness check, the
\* initialization of the first function of 2025.07.29, and its render when a
\* load has succeeded.
C17_MissingFloorplanNotified ==
    [][ ~floorEl =>
          /\ last'.errors = 0
          /\ (Frame \/ (WindowLoad /\ onloadOn)) => last'.alerts >= 1
          /\ (RunScript /\ lib /\ script = "v0729") => last'.alerts >= 1
          /\ \A r \in Responses :
                (~r.net /\ r.ok /\ r.body = "arr" /\ FetchDoneOf("clean", r)) =>
                    last'.alerts >= 1 ]_vars

----------------------------------------------------------------------------
(* Scene paths: window.loadScene of 2025.07.29 applied to any path *)

HttpUpper == << "H", "T", "T", "P", "S", ":", "/", "/" >>
Ftp == << "f", "t", "p", ":", "/", "/" >>
Photos == << "p", "h", "o", "t", "o", "s" >>

PathPrefixes ==
    { << >>, Http, Https, PhotosDir, HttpUpper, Ftp, Photos,
      << "/" >> \o PhotosDir, << "x", "/" >> \o Https }

PathTails == { << "a" >>, << "b", "/", "a" >> }

Paths == { pre \o tail : pre \in PathPrefixes, tail \in PathTails }

\* window.loadScene(path), as the click handler of a page-load marker calls it
\* with the photo of its hotspot
CallLoadScene ==
    /\ globalScene /\ ~Due(Cur)
    /\ \E path \in Paths : Do(loadScene(Begin, "legacy", path))

InitPath == InitWith({"loaded"}) /\ script = "v0729" /\ lib /\ floorEl

NextPath ==
    \/ RunScript
    \/ CallLoadScene

SpecPath == InitPath /\ [][NextPath]_vars

\* a path that begins with a URL scheme (letters up to a colon)
SchemeLetters == { "a", "b", "f", "h", "o", "p", "s", "t", "x", "H", "P", "S", "T" }

AbsoluteUrl(path) ==
    \E k \in 2..Len(path) :
        path[k] = ":" /\ \A j \in 1..(k - 1) : path[j] \in SchemeLetters

\* C18: the normalization of loadScene leaves a path unchanged if it is an
\* absolute URL or starts with photos/, prefixes it with photos/ otherwise,
\* and applied to its own result changes nothing.
C18_PathNormalization ==
    \A i \in DOMAIN views :
        (views[i].by = "legacy" /\ script = "v0729") =>
            /\ views[i].src =
                  IF AbsoluteUrl(views[i].arg) \/ StartsWith(views[i].arg, PhotosDir)
                  THEN views[i].arg
                  ELSE PhotosDir \o views[i].arg
            /\ Normalize(views[i].src) = views[i].src

\* C19: in 2025.08.05 run as a whole, with every fetch returning the same
\* dataset, the document never holds more markers than the dataset has
\* hotspots, whatever the interleaving of page load, toggles, frames and
\* fetch completions.
C19_MarkersBounded ==
    script = "v0805" => \A data \in Datasets : Len(dots) <= Len(data)

\* C20: the readiness poll terminates: drawDotsWhenReady makes at most
\* Retries + 1 checks and sets at most Retries timers; it ends either with
\* exactly one fetch or with exactly one warning, never both, and once it has
\* ended, or whenever no timer is pending after a check, nothing more is
\* scheduled.
C20_PollTerminates ==
    /\ polls.checks <= Retries + 1
    /\ polls.timers <= Retries
    /\ polls.timers <= polls.checks
    /\ polls.fetches + polls.warns <= 1
    /\ polls.fetches + polls.warns = 1 => pollTimer = << >>
    /\ (polls.checks > 0 /\ pollTimer = << >>) => polls.fetches + polls.warns = 1
    /\ polls.fetches = 1 => polls.timers = polls.checks - 1
    /\ pollTimer # << >> => pollTimer[1].left <= PollDelay

C20_Witness ==
    polls.fetches = 1 /\ polls.checks >= 3 /\ polls.warns = 0 /\ pollTimer = << >>

====
